---- MODULE Spec2Model ----
(***************************************************************************)
(* A model of mikro-manager: the file based access control of              *)
(* mikro_common/access.py, the router configuration loading of             *)
(* mikro_common/config.py, the DNS resource manager of mikro_dns/dns.py    *)
(* (on top of mikro_common/resource.py) and the mikro-dns command line     *)
(* of mikro_dns/cli.py.                                                    *)
(*                                                                         *)
(* A Python string is a sequence of tokens; the token ":" is the colon     *)
(* character and every other token is a colon-free piece of text, so       *)
(* "dns-admin:read-only" is <<"dns-admin", ":", "read-only">>.  A Python   *)
(* dict is a function whose DOMAIN is the set of its keys.                 *)
(***************************************************************************)
EXTENDS Integers, Sequences, FiniteSets, TLC

VARIABLES
    euid,        \* os.geteuid() of the process
    username,    \* pwd.getpwuid(os.getuid()).pw_name of the process
    usersDir,    \* /etc/mikro-manager/users.d: [exists, files]
    groupsDir,   \* /etc/mikro-manager/groups.d: [exists, files]
    lastOp,      \* the access.py function called last ("none" before any)
    lastArg,     \* its argument (a username or a permission string)
    lastRet,     \* what check_permission returned
    lastPerms,   \* what get_user_permissions returned
    lastRaised,  \* the exception the call raised ("" when it returned)
    routersDir,  \* /etc/mikro-manager/routers.d: [exists, uid, files]
    router,      \* the router: [entries, sent, nextId]
    pc,          \* where main() of mikro-dns is
    args,        \* the parsed command line
    required,    \* the permission main() asked require_permission for
    routers,     \* what load_routers returned
    routerConfig,\* what get_router_config returned
    loadCalled,  \* load_routers has been called
    connCalled,  \* MikroTikClient.connect has been called
    connected,   \* the connection is open
    out,         \* the lines printed, as their kinds
    exitStatus,  \* the exit status of the process (-1 while it runs)
    unhandled,   \* the exception that escaped main() ("" when none)
    mgr,         \* the class of the manager object a client holds
    callOp,      \* the manager method called last ("none" before any)
    callArgs,    \* its arguments
    callRet,     \* what it returned
    callRaised,  \* the exception it raised ("" when it returned)
    before,      \* the router as it was when the call began
    nCalls       \* the number of manager calls made

accessVars == <<euid, username, usersDir, groupsDir,
                lastOp, lastArg, lastRet, lastPerms, lastRaised>>

cliVars == <<routersDir, router, pc, args, required, routers, routerConfig,
             loadCalled, connCalled, connected, out, exitStatus, unhandled>>

mgrVars == <<mgr, callOp, callArgs, callRet, callRaised, before, nCalls>>

vars == <<accessVars, cliVars, mgrVars>>

(***************************************************************************)
(* Bounds of the model.                                                    *)
(***************************************************************************)
\* the most group references one user's permissions list holds in total
MaxGroupRefs == 2

(***************************************************************************)
(* Python strings.                                                         *)
(***************************************************************************)
Colon == ":"

HasColon(s) == \E i \in 1..Len(s) : s[i] = Colon

FirstColon(s) == CHOOSE i \in 1..Len(s) :
                    s[i] = Colon /\ \A j \in 1..(i - 1) : s[j] # Colon

\* s.split(':', 1) of a string that holds a colon: the two parts
SplitOnce(s) == [head |-> SubSeq(s, 1, FirstColon(s) - 1),
                 tail |-> SubSeq(s, FirstColon(s) + 1, Len(s))]

\* s.split(':')[0]
SplitFirst(s) == IF HasColon(s) THEN SubSeq(s, 1, FirstColon(s) - 1) ELSE s

\* an optional value: Python's None is [some |-> FALSE]
None == [some |-> FALSE, v |-> <<>>]
Some(s) == [some |-> TRUE, v |-> s]
\* truthiness of an optional string: None and '' are false
Truthy(o) == o.some /\ o.v # <<>>

\* d.get(k): None when the key is missing
Get(d, k) == IF k \in DOMAIN d THEN Some(d[k]) ELSE None

\* d[k] = v on a dict
DictSet(d, k, v) == [x \in DOMAIN d \cup {k} |-> IF x = k THEN v ELSE d[x]]

EmptyDict == [x \in {} |-> <<>>]

(***************************************************************************)
(* access.py: loading users.d and groups.d.                                *)
(* A file is [valid, data]: valid is FALSE for a file that fails to parse  *)
(* or lacks the 'user' / 'group' key or the name in it; such a file is     *)
(* skipped.  Files are in sorted order, a later file replaces an earlier   *)
(* one with the same name.                                                 *)
(***************************************************************************)
RECURSIVE LoadFiles(_, _, _)
LoadFiles(files, key, acc) ==
    IF files = <<>> THEN acc
    ELSE LET f == Head(files)
         IN  LoadFiles(Tail(files), key,
                       IF f.valid THEN DictSet(acc, f.data[key], f.data) ELSE acc)

load_users == IF ~usersDir.exists THEN EmptyDict
              ELSE LoadFiles(usersDir.files, "username", EmptyDict)

load_groups == IF ~groupsDir.exists THEN EmptyDict
               ELSE LoadFiles(groupsDir.files, "name", EmptyDict)

(***************************************************************************)
(* access.py: get_user_permissions.                                        *)
(* A group reference is a dict [kind |-> "dict", name, access] (access an  *)
(* optional value) or a string [kind |-> "str", s].  A group's modules     *)
(* value is [list |-> TRUE, v |-> <<module, ...>>] or a scalar             *)
(* [list |-> FALSE, v |-> string].                                         *)
(***************************************************************************)
Wildcard == <<"*">>

\* lines 133-141: the group name a reference names
group_name(group_item) ==
    IF group_item.kind = "dict" THEN group_item.name
    ELSE IF HasColon(group_item.s) THEN SplitOnce(group_item.s).head
    ELSE group_item.s

\* lines 133-141: the access override a reference carries
access_override(group_item) ==
    IF group_item.kind = "dict" THEN group_item.access
    ELSE IF HasColon(group_item.s) THEN Some(SplitOnce(group_item.s).tail)
    ELSE None

\* line 148: access_override or group.get('access') or
\*           group.get('default_access', 'read-only')
access_level(override, group) ==
    IF Truthy(override) THEN override.v
    ELSE IF Truthy(Get(group, "access")) THEN group.access
    ELSE IF "default_access" \in DOMAIN group THEN group.default_access
    ELSE <<"read-only">>

\* a slip in lines 164-165: read-only also grants write
LevelPermissions_ReadOnlyWrites(module, level) ==
    IF level \in {<<"read-write">>, <<"read-only">>}
        THEN {module \o <<Colon, "read">>, module \o <<Colon, "write">>}
    ELSE IF level = <<"write-only">> THEN {module \o <<Colon, "write">>}
    ELSE {}

\* lines 161-167: the permissions one module gets from an access level
LevelPermissions(module, level) ==
    IF level = <<"read-write">>
        THEN {module \o <<Colon, "read">>, module \o <<Colon, "write">>}
    ELSE IF level = <<"read-only">> THEN {module \o <<Colon, "read">>}
    ELSE IF level = <<"write-only">> THEN {module \o <<Colon, "write">>}
    ELSE {}

\* lines 145, 156-157: group.get('modules', []) made a list
ModuleList(group) ==
    IF "modules" \notin DOMAIN group THEN <<>>
    ELSE IF group.modules.list THEN group.modules.v
    ELSE <<group.modules.v>>

\* a slip in line 151: the wildcard looked for inside a list, ["*"]
IsWildcardModules_ListOnly(group) ==
    /\ "modules" \in DOMAIN group
    /\ group.modules.list
    /\ group.modules.v = <<Wildcard>>

\* line 151: modules == "*"
IsWildcardModules(group) ==
    /\ "modules" \in DOMAIN group
    /\ ~group.modules.list
    /\ group.modules.v = Wildcard

\* lines 132-167: what one group reference adds to the permissions
ItemPermissions(group_item, groups) ==
    LET name == group_name(group_item)
    IN  IF name \notin DOMAIN groups THEN {}
        ELSE LET group == groups[name]
                 level == access_level(access_override(group_item), group)
                 mods  == ModuleList(group)
             IN  IF IsWildcardModules(group) THEN {Wildcard}
                 ELSE UNION {LevelPermissions(mods[i], level) : i \in 1..Len(mods)}

\* lines 124-167: the two nested loops over permissions and their groups
PermissionsOf(permissions_list, groups) ==
    UNION {UNION {ItemPermissions(permissions_list[e].groups[i], groups) :
                     i \in 1..Len(permissions_list[e].groups)} :
              e \in 1..Len(permissions_list)}

\* a slip: lines 113-114 left out
get_user_permissions_NoOpenDefault(name, users, groups) ==
    IF name \notin DOMAIN users THEN {}
    ELSE PermissionsOf(users[name].permissions, groups)

\* a slip in line 118: an unknown user gets the open default
get_user_permissions_UnknownOpen(name, users, groups) ==
    IF DOMAIN users = {} \/ name \notin DOMAIN users THEN {Wildcard}
    ELSE PermissionsOf(users[name].permissions, groups)

\* lines 100-169
get_user_permissions(name, users, groups) ==
    IF DOMAIN users = {} THEN {Wildcard}
    ELSE IF name \notin DOMAIN users THEN {}
    ELSE PermissionsOf(users[name].permissions, groups)

(***************************************************************************)
(* access.py: check_permission and require_permission.                     *)
(***************************************************************************)
\* a slip: lines 183-184 left out
check_permission_NoRoot(required_permission) ==
    LET users == load_users
        groups == load_groups
    IN  IF DOMAIN users = {} THEN TRUE
        ELSE LET permissions == get_user_permissions(username, users, groups)
             IN  \/ Wildcard \in permissions
                 \/ required_permission \in permissions
                 \/ (SplitFirst(required_permission) \o <<Colon, "*">>)
                       \in permissions

\* a slip in lines 205-206: any permission on the module counts
check_permission_ModuleMatch(required_permission) ==
    IF euid = 0 THEN TRUE
    ELSE LET users == load_users
             groups == load_groups
         IN  IF DOMAIN users = {} THEN TRUE
             ELSE LET permissions == get_user_permissions(username, users, groups)
                  IN  \/ Wildcard \in permissions
                      \/ required_permission \in permissions
                      \/ \E q \in permissions :
                            SplitFirst(q) = SplitFirst(required_permission)

\* lines 172-209
check_permission(required_permission) ==
    IF euid = 0 THEN TRUE
    ELSE LET users == load_users
             groups == load_groups
         IN  IF DOMAIN users = {} THEN TRUE
             ELSE LET permissions == get_user_permissions(username, users, groups)
                  IN  \/ Wildcard \in permissions
                      \/ required_permission \in permissions
                      \/ (SplitFirst(required_permission) \o <<Colon, "*">>)
                            \in permissions

\* the exception require_permission raises ("" when it returns)
require_permission(required_permission) ==
    IF ~check_permission(required_permission) THEN "AccessDeniedError" ELSE ""

(***************************************************************************)
(* Python values of the resource layer.  A value is [t, s]: a str, a bool  *)
(* (s is "True" or "False") or None.  A dict is a function from its keys   *)
(* to values; keyword arguments are a dict.                                *)
(***************************************************************************)
S(s) == [t |-> "str", s |-> s]
B(b) == [t |-> "bool", s |-> IF b THEN "True" ELSE "False"]
PyNone == [t |-> "none", s |-> ""]

\* the truth value Python gives a value in `if v` / `not v` / `v or w`
PyTruthy(v) ==
    CASE v.t = "str" -> v.s # ""
      [] v.t = "bool" -> v.s = "True"
      [] OTHER -> FALSE

PyOr(v, w) == IF PyTruthy(v) THEN v ELSE w

\* d.get(k) and d.get(k, default)
DGet(d, k) == IF k \in DOMAIN d THEN d[k] ELSE PyNone
DGetOr(d, k, default) == IF k \in DOMAIN d THEN d[k] ELSE default

\* d without key k
DictDel(d, k) == [x \in DOMAIN d \ {k} |-> d[x]]

\* {**d, **e}
DictMerge(d, e) == [x \in DOMAIN d \cup DOMAIN e |-> IF x \in DOMAIN e THEN e[x] ELSE d[x]]

\* what a manager call leaves behind: the router, the return value, the
\* exception raised ("" when the call returned)
Result(st, ret, raised) == [st |-> st, ret |-> ret, raised |-> raised]

\* the arguments and the return value of a manager call, before any call
NoCallArgs ==
    [name |-> PyNone, kwargs |-> <<>>, format |-> "", overwrite |-> FALSE,
     key_field |-> "", data |-> [format |-> "", ok |-> TRUE, rows |-> <<>>]]

NoStats == [added |-> 0, updated |-> 0, skipped |-> 0]

NoRet == [val |-> PyNone, text |-> [format |-> "", ok |-> TRUE, rows |-> <<>>],
          stats |-> NoStats]

\* no manager call has been made
MgrIdle ==
    /\ mgr = "none" /\ callOp = "none" /\ callArgs = NoCallArgs
    /\ callRet = NoRet /\ callRaised = ""
    /\ before = [entries |-> <<>>, sent |-> <<>>, nextId |-> 1]
    /\ nCalls = 0

(***************************************************************************)
(* The router behind client.get_path('/ip/dns/static'): st.entries is the  *)
(* table, st.sent the add / update / remove requests it has received and   *)
(* st.nextId the number of the next entry it creates.  The router keeps    *)
(* 'disabled' as 'true' / 'false' and accepts yes / no for it.             *)
(***************************************************************************)
IdNames == <<"*1", "*2", "*3", "*4", "*5", "*6", "*7", "*8">>
RouterId(n) == S(IdNames[n])

RouterBool(v) ==
    IF v \in {S("yes"), S("true"), B(TRUE)} THEN S("true")
    ELSE IF v \in {S("no"), S("false"), B(FALSE)} THEN S("false")
    ELSE v

RouterFields(params) ==
    [k \in DOMAIN params |-> IF k = "disabled" THEN RouterBool(params[k]) ELSE params[k]]

\* path.add(**params)
PathAdd(st, params) ==
    Result([entries |-> Append(st.entries,
                               DictSet(RouterFields(params), ".id", RouterId(st.nextId))),
            sent |-> Append(st.sent, [op |-> "add", params |-> params]),
            nextId |-> st.nextId + 1],
           RouterId(st.nextId), "")

\* path.update(**params): the entry with params['.id'] takes the other fields
PathUpdate(st, params) ==
    LET hit == {i \in 1..Len(st.entries) : st.entries[i][".id"] = DGet(params, ".id")}
        sent == Append(st.sent, [op |-> "update", params |-> params])
    IN  IF hit = {}
        THEN Result([st EXCEPT !.sent = sent], PyNone, "TrapError")
        ELSE Result([st EXCEPT !.sent = sent,
                               !.entries = [i \in 1..Len(st.entries) |->
                                   IF i \in hit
                                   THEN DictMerge(st.entries[i],
                                                  RouterFields(DictDel(params, ".id")))
                                   ELSE st.entries[i]]],
                    PyNone, "")

\* path.remove(entry_id)
PathRemove(st, entry_id) ==
    LET keep == {i \in 1..Len(st.entries) : st.entries[i][".id"] # entry_id}
        sent == Append(st.sent, [op |-> "remove", params |-> (".id" :> entry_id)])
    IN  IF Cardinality(keep) = Len(st.entries)
        THEN Result([st EXCEPT !.sent = sent], PyNone, "TrapError")
        ELSE Result([st EXCEPT !.sent = sent,
                               !.entries = SelectSeq(st.entries,
                                               LAMBDA e : e[".id"] # entry_id)],
                    PyNone, "")

(***************************************************************************)
(* resource.py: ResourceManager.                                           *)
(***************************************************************************)
\* lines 30-43: the raw entries
ResourceManager_list_entries(st) == st.entries

\* a slip in lines 72-76: no entry ever matches
ResourceManager_find_entry_Never(st, kwargs) ==
    [found |-> FALSE, entry |-> EmptyDict]

\* lines 61-76: find_entry(**kwargs), the first entry matching every field
ResourceManager_find_entry(st, kwargs) ==
    LET hit == {i \in 1..Len(st.entries) :
                   \A k \in DOMAIN kwargs : DGet(st.entries[i], k) = kwargs[k]}
    IN  IF hit = {} THEN [found |-> FALSE, entry |-> EmptyDict]
        ELSE [found |-> TRUE,
              entry |-> st.entries[CHOOSE i \in hit : \A j \in hit : i <= j]]

\* lines 78-90: add_entry(**kwargs)
ResourceManager_add_entry(st, kwargs) == PathAdd(st, kwargs)

\* lines 92-105: update_entry(entry_id, **kwargs)
ResourceManager_update_entry(st, entry_id, kwargs) ==
    LET r == PathUpdate(st, DictMerge((".id" :> entry_id), kwargs))
    IN  IF r.raised # "" THEN r ELSE Result(r.st, B(TRUE), "")

\* lines 107-119: remove_entry(entry_id)
ResourceManager_remove_entry(st, entry_id) ==
    LET r == PathRemove(st, entry_id)
    IN  IF r.raised # "" THEN r ELSE Result(r.st, B(TRUE), "")

(***************************************************************************)
(* dns.py: DNSManager.                                                     *)
(***************************************************************************)
\* the keys of an entry as DNSManager.list_entries gives it
DnsKeys == {"id", "name", "type", "address", "cname", "mx-preference",
            "mx-exchange", "text", "ns", "srv-priority", "srv-weight",
            "srv-port", "srv-target", "forward-to", "regexp", "ttl",
            "comment", "disabled"}

\* lines 40-59
DnsEntry(entry) ==
    [k \in DnsKeys |->
        CASE k = "id" -> DGet(entry, ".id")
          [] k = "type" -> PyOr(DGet(entry, "type"), S("A"))
          [] k = "ttl" -> PyOr(DGet(entry, "ttl"), S("1d"))
          [] k = "disabled" -> B(DGetOr(entry, "disabled", S("false")) = S("true"))
          [] OTHER -> PyOr(DGet(entry, k), S(""))]

\* lines 29-61
DNSManager_list_entries(st) == [i \in 1..Len(st.entries) |-> DnsEntry(st.entries[i])]

\* a slip in lines 74-77: the last entry with the name, not the first
DNSManager_find_entry_Last(st, name) ==
    LET entries == DNSManager_list_entries(st)
        hit == {i \in 1..Len(entries) : entries[i]["name"] = name}
    IN  IF hit = {} THEN [found |-> FALSE, entry |-> EmptyDict]
        ELSE [found |-> TRUE,
              entry |-> entries[CHOOSE i \in hit : \A j \in hit : i >= j]]

\* lines 63-77: find_entry(name)
DNSManager_find_entry(st, name) ==
    LET entries == DNSManager_list_entries(st)
        hit == {i \in 1..Len(entries) : entries[i]["name"] = name}
    IN  IF hit = {} THEN [found |-> FALSE, entry |-> EmptyDict]
        ELSE [found |-> TRUE,
              entry |-> entries[CHOOSE i \in hit : \A j \in hit : i <= j]]

\* the parameters of DNSManager.add_entry after name, with their defaults
AddDefaults ==
    [k \in {"record_type", "address", "cname", "mx_preference", "mx_exchange",
            "text", "ns", "srv_priority", "srv_weight", "srv_port",
            "srv_target", "forward_to", "regexp", "ttl", "comment", "disabled"} |->
        CASE k = "record_type" -> S("A")
          [] k = "ttl" -> S("1d")
          [] k = "disabled" -> B(FALSE)
          [] OTHER -> S("")]

\* a slip in lines 141-144: a TXT record without its text goes through
RequiredField_TxtOptional(record_type) ==
    CASE record_type \in {S("A"), S("AAAA")} -> "address"
      [] record_type = S("CNAME") -> "cname"
      [] record_type = S("MX") -> "mx_exchange"
      [] record_type = S("NS") -> "ns"
      [] record_type = S("SRV") -> "srv_target"
      [] record_type = S("FWD") -> "forward_to"
      [] record_type = S("REGEXP") -> "regexp"
      [] OTHER -> ""

\* lines 127-169: the field a record type requires ("" for none) and the
\* optional fields sent with it when they are not empty
RequiredField(record_type) ==
    CASE record_type \in {S("A"), S("AAAA")} -> "address"
      [] record_type = S("CNAME") -> "cname"
      [] record_type = S("MX") -> "mx_exchange"
      [] record_type = S("TXT") -> "text"
      [] record_type = S("NS") -> "ns"
      [] record_type = S("SRV") -> "srv_target"
      [] record_type = S("FWD") -> "forward_to"
      [] record_type = S("REGEXP") -> "regexp"
      [] OTHER -> ""

OptionalFields(record_type) ==
    CASE record_type = S("MX") -> {"mx_preference"}
      [] record_type = S("SRV") -> {"srv_priority", "srv_weight", "srv_port"}
      [] OTHER -> {}

\* the router's name of a keyword parameter: mx_exchange is 'mx-exchange'
RouterKey(param) ==
    CASE param = "record_type" -> "type"
      [] param = "mx_preference" -> "mx-preference"
      [] param = "mx_exchange" -> "mx-exchange"
      [] param = "srv_priority" -> "srv-priority"
      [] param = "srv_weight" -> "srv-weight"
      [] param = "srv_port" -> "srv-port"
      [] param = "srv_target" -> "srv-target"
      [] param = "forward_to" -> "forward-to"
      [] OTHER -> param

\* a dict with the given parameters under their router names
WithRouterKeys(a, given) ==
    [k \in {RouterKey(q) : q \in given} |-> a[CHOOSE q \in given : RouterKey(q) = k]]

\* a slip in lines 113-116: the check for an existing entry left out
DNSManager_add_entry_NoExistenceCheck(st, kwargs) ==
    IF "name" \notin DOMAIN kwargs \/ ~(DOMAIN kwargs \subseteq DOMAIN AddDefaults \cup {"name"})
    THEN Result(st, PyNone, "TypeError")
    ELSE
    LET a == DictMerge(AddDefaults, kwargs)
        req == RequiredField(a["record_type"])
        given == {"name", "record_type", "ttl"}
                 \cup (IF req = "" THEN {} ELSE {req})
                 \cup {q \in OptionalFields(a["record_type"]) : PyTruthy(a[q])}
                 \cup (IF PyTruthy(a["comment"]) THEN {"comment"} ELSE {})
        params == DictMerge(WithRouterKeys(a, given),
                            IF PyTruthy(a["disabled"])
                            THEN ("disabled" :> S("yes")) ELSE EmptyDict)
    IN  IF req # "" /\ ~PyTruthy(a[req])
        THEN Result(st, PyNone, "ValueError")
        ELSE PathAdd(st, params)

\* lines 79-181: add_entry(name=..., **kwargs)
DNSManager_add_entry(st, kwargs) ==
    IF "name" \notin DOMAIN kwargs \/ ~(DOMAIN kwargs \subseteq DOMAIN AddDefaults \cup {"name"})
    THEN Result(st, PyNone, "TypeError")
    ELSE
    LET a == DictMerge(AddDefaults, kwargs)
        req == RequiredField(a["record_type"])
        given == {"name", "record_type", "ttl"}
                 \cup (IF req = "" THEN {} ELSE {req})
                 \cup {q \in OptionalFields(a["record_type"]) : PyTruthy(a[q])}
                 \cup (IF PyTruthy(a["comment"]) THEN {"comment"} ELSE {})
        params == DictMerge(WithRouterKeys(a, given),
                            IF PyTruthy(a["disabled"])
                            THEN ("disabled" :> S("yes")) ELSE EmptyDict)
    IN  IF DNSManager_find_entry(st, a["name"]).found
        THEN Result(st, PyNone, "ValueError")
        ELSE IF req # "" /\ ~PyTruthy(a[req])
        THEN Result(st, PyNone, "ValueError")
        ELSE PathAdd(st, params)

\* the optional parameters of DNSManager.update_entry after name
UpdateParams == {"record_type", "address", "cname", "mx_preference",
                 "mx_exchange", "text", "ttl", "comment", "disabled"}

\* lines 183-234: update_entry(name, **kwargs)
DNSManager_update_entry(st, name, kwargs) ==
    IF ~(DOMAIN kwargs \subseteq UpdateParams)
    THEN Result(st, PyNone, "TypeError")
    ELSE
    LET found == DNSManager_find_entry(st, name)
        given == {q \in DOMAIN kwargs \ {"disabled"} : kwargs[q] # PyNone}
        params == DictMerge(
                    DictMerge((".id" :> found.entry["id"]), WithRouterKeys(kwargs, given)),
                    IF DGet(kwargs, "disabled") # PyNone
                    THEN ("disabled" :> IF PyTruthy(kwargs["disabled"])
                                        THEN S("yes") ELSE S("no"))
                    ELSE EmptyDict)
    IN  IF ~found.found THEN Result(st, B(FALSE), "")
        ELSE LET r == PathUpdate(st, params)
             IN  IF r.raised # "" THEN r ELSE Result(r.st, B(TRUE), "")

\* lines 236-252: delete_entry(name)
DNSManager_delete_entry(st, name) ==
    LET found == DNSManager_find_entry(st, name)
    IN  IF ~found.found THEN Result(st, B(FALSE), "")
        ELSE LET r == PathRemove(st, found.entry["id"])
             IN  IF r.raised # "" THEN r ELSE Result(r.st, B(TRUE), "")

(***************************************************************************)
(* Method lookup: cls is the class of the manager object; a method called  *)
(* on self is the subclass's when the subclass defines it.                 *)
(***************************************************************************)
\* self.update_entry(first, **kwargs)
update_entry(cls, st, first, kwargs) ==
    IF cls = "DNSManager" THEN DNSManager_update_entry(st, first, kwargs)
    ELSE ResourceManager_update_entry(st, first, kwargs)

\* resource.py lines 121-131: enable_entry(entry_id), inherited by DNSManager
enable_entry(cls, st, entry_id) ==
    update_entry(cls, st, entry_id, ("disabled" :> S("false")))

\* a slip in resource.py line 143: the empty string for the disabled value
disable_entry_SendsEmpty(cls, st, entry_id) ==
    update_entry(cls, st, entry_id, ("disabled" :> S("")))

\* resource.py lines 133-143: disable_entry(entry_id), inherited by DNSManager
disable_entry(cls, st, entry_id) ==
    update_entry(cls, st, entry_id, ("disabled" :> S("true")))

\* self.add_entry(**kwargs)
add_entry(cls, st, kwargs) ==
    IF cls = "DNSManager" THEN DNSManager_add_entry(st, kwargs)
    ELSE ResourceManager_add_entry(st, kwargs)

\* self.list_entries()
list_entries(cls, st) ==
    IF cls = "DNSManager" THEN DNSManager_list_entries(st)
    ELSE ResourceManager_list_entries(st)

\* self.find_entry(**kwargs): DNSManager.find_entry takes the one parameter name
find_entry(cls, st, kwargs) ==
    IF cls = "DNSManager"
    THEN IF DOMAIN kwargs # {"name"}
         THEN [found |-> FALSE, entry |-> EmptyDict, raised |-> "TypeError"]
         ELSE [found |-> DNSManager_find_entry(st, kwargs["name"]).found,
               entry |-> DNSManager_find_entry(st, kwargs["name"]).entry,
               raised |-> ""]
    ELSE [found |-> ResourceManager_find_entry(st, kwargs).found,
          entry |-> ResourceManager_find_entry(st, kwargs).entry,
          raised |-> ""]

(***************************************************************************)
(* resource.py: search, export and import.                                 *)
(* A text is [format, ok, rows]: ok is FALSE for data the parser rejects;  *)
(* rows are the records it holds.  A CSV cell is a str.                    *)
(***************************************************************************)
\* fnmatch.fnmatch(value, pattern) for the patterns "*" and a literal
Fnmatch(value, pattern) == pattern = "*" \/ value = pattern

\* resource.py lines 158-186 as dns.py line 265 calls it
search_entries(cls, st, pattern, fields) ==
    SelectSeq(list_entries(cls, st),
              LAMBDA e : \E f \in fields :
                  DGetOr(e, f, S("")).t = "str" /\ Fnmatch(DGetOr(e, f, S("")).s, pattern))

\* str(v) as csv.DictWriter writes a cell
CsvCell(v) == IF v.t = "none" THEN S("") ELSE S(v.s)

\* resource.py lines 188-215: export_entries(format)
export_entries(cls, st, format) ==
    LET entries == list_entries(cls, st)
    IN  IF format = "json"
        THEN [text |-> [format |-> "json", ok |-> TRUE, rows |-> entries], raised |-> ""]
        ELSE IF format = "csv"
        THEN IF \E i \in 1..Len(entries) : ~(DOMAIN entries[i] \subseteq DOMAIN entries[1])
             THEN [text |-> [format |-> "csv", ok |-> FALSE, rows |-> <<>>],
                   raised |-> "ValueError"]
             ELSE [text |-> [format |-> "csv", ok |-> TRUE,
                             rows |-> [i \in 1..Len(entries) |->
                                 [k \in DOMAIN entries[1] |->
                                     IF k \in DOMAIN entries[i]
                                     THEN CsvCell(entries[i][k]) ELSE S("")]]],
                   raised |-> ""]
        ELSE [text |-> [format |-> format, ok |-> FALSE, rows |-> <<>>],
              raised |-> "ValueError"]

\* resource.py lines 246-266: the loop of import_entries over the parsed rows
RECURSIVE ImportLoop(_, _, _, _, _, _)
ImportLoop(cls, st, rows, stats, overwrite, key_field) ==
    IF rows = <<>> THEN [st |-> st, stats |-> stats, raised |-> ""]
    ELSE
    LET entry == DictDel(Head(rows), ".id")
        key_value == DGet(entry, key_field)
        existing == find_entry(cls, st, (key_field :> key_value))
        skip == ImportLoop(cls, st, Tail(rows),
                           [stats EXCEPT !.skipped = @ + 1], overwrite, key_field)
    IN  IF ~PyTruthy(key_value) THEN skip
        ELSE IF existing.raised # ""
        THEN [st |-> st, stats |-> stats, raised |-> existing.raised]
        ELSE IF existing.found
        THEN IF ~overwrite THEN skip
             ELSE IF ".id" \notin DOMAIN existing.entry
             THEN [st |-> st, stats |-> stats, raised |-> "KeyError"]
             ELSE LET r == update_entry(cls, st, existing.entry[".id"], entry)
                  IN  IF r.raised # ""
                      THEN [st |-> r.st, stats |-> stats, raised |-> r.raised]
                      ELSE ImportLoop(cls, r.st, Tail(rows),
                                      [stats EXCEPT !.updated = @ + 1],
                                      overwrite, key_field)
        ELSE LET r == add_entry(cls, st, entry)
             IN  IF r.raised # ""
                 THEN [st |-> r.st, stats |-> stats, raised |-> r.raised]
                 ELSE ImportLoop(cls, r.st, Tail(rows),
                                 [stats EXCEPT !.added = @ + 1], overwrite, key_field)

\* a slip in resource.py lines 258-263: overwrite is not honoured
import_entries_NeverOverwrites(cls, st, data, format, overwrite, key_field) ==
    IF format \notin {"json", "csv"} \/ (format = "json" /\ ~data.ok)
    THEN [st |-> st, stats |-> [added |-> 0, updated |-> 0, skipped |-> 0],
          raised |-> "ValueError"]
    ELSE ImportLoop(cls, st, data.rows,
                    [added |-> 0, updated |-> 0, skipped |-> 0], FALSE, key_field)

\* resource.py lines 217-268: import_entries(data, format, overwrite, key_field);
\* data is a text of the format named (json.loads raises a ValueError on
\* text that is not JSON)
import_entries(cls, st, data, format, overwrite, key_field) ==
    IF format \notin {"json", "csv"} \/ (format = "json" /\ ~data.ok)
    THEN [st |-> st, stats |-> [added |-> 0, updated |-> 0, skipped |-> 0],
          raised |-> "ValueError"]
    ELSE ImportLoop(cls, st, data.rows,
                    [added |-> 0, updated |-> 0, skipped |-> 0], overwrite, key_field)

\* dns.py lines 276-287: the duplicate names validate_entries reports
Duplicates(entries) ==
    {j \in 1..Len(entries) : \E i \in 1..(j - 1) : entries[i]["name"] = entries[j]["name"]}

\* dns.py lines 290-300: the address conflicts validate_entries reports;
\* ip_map maps an address to the index of the entry last stored for it
RECURSIVE Conflicts(_, _, _)
Conflicts(entries, i, ip_map) ==
    IF i > Len(entries) THEN {}
    ELSE LET ip == entries[i]["address"]
         IN  IF ip \in DOMAIN ip_map /\ entries[ip_map[ip]]["name"] # entries[i]["name"]
             THEN {i} \cup Conflicts(entries, i + 1, ip_map)
             ELSE Conflicts(entries, i + 1, DictSet(ip_map, ip, i))

(***************************************************************************)
(* config.py: load_routers and get_router_config.                          *)
(* routersDir is [exists, uid, files]; a file is [uid, valid, data] with   *)
(* valid FALSE for a file that fails to parse or lacks the 'router' key or *)
(* its name.  The routers load in file order; a dict keeps the place of a  *)
(* key that is set again.                                                  *)
(***************************************************************************)
RoutersPut(loaded, r) ==
    IF \E i \in 1..Len(loaded) : loaded[i]["name"] = r["name"]
    THEN [i \in 1..Len(loaded) |->
             IF loaded[i]["name"] = r["name"] THEN r ELSE loaded[i]]
    ELSE Append(loaded, r)

\* config.py lines 54-74
RECURSIVE LoadRouterFiles(_, _, _)
LoadRouterFiles(files, uid, loaded) ==
    IF files = <<>> THEN loaded
    ELSE LET f == Head(files)
         IN  LoadRouterFiles(Tail(files), uid,
                 IF uid # 0 /\ f.uid # 0 THEN loaded
                 ELSE IF ~f.valid THEN loaded
                 ELSE RoutersPut(loaded, f.data))

\* a slip in config.py lines 41-48: the owner of the directory is not checked
load_routers_NoDirCheck(dir, uid) ==
    IF ~dir.exists THEN [routers |-> <<>>, raised |-> "FileNotFoundError"]
    ELSE LET loaded == LoadRouterFiles(dir.files, uid, <<>>)
         IN  IF loaded = <<>> THEN [routers |-> <<>>, raised |-> "FileNotFoundError"]
             ELSE [routers |-> loaded, raised |-> ""]

\* config.py lines 21-79
load_routers(dir, uid) ==
    IF ~dir.exists THEN [routers |-> <<>>, raised |-> "FileNotFoundError"]
    ELSE IF uid # 0 /\ dir.uid # 0 THEN [routers |-> <<>>, raised |-> "PermissionError"]
    ELSE LET loaded == LoadRouterFiles(dir.files, uid, <<>>)
         IN  IF loaded = <<>> THEN [routers |-> <<>>, raised |-> "FileNotFoundError"]
             ELSE [routers |-> loaded, raised |-> ""]

\* config.py lines 82-106
get_router_config(loaded, router_name) ==
    IF loaded = <<>> THEN [config |-> EmptyDict, raised |-> "ValueError"]
    ELSE IF PyTruthy(router_name)
    THEN IF \E i \in 1..Len(loaded) : loaded[i]["name"] = router_name
         THEN [config |-> loaded[CHOOSE i \in 1..Len(loaded) :
                                     loaded[i]["name"] = router_name],
               raised |-> ""]
         ELSE [config |-> EmptyDict, raised |-> "ValueError"]
    ELSE [config |-> loaded[1], raised |-> ""]

(***************************************************************************)
(* mikro_dns/cli.py: the commands.  A command leaves [st, out, how]: the   *)
(* router, the lines printed and how it ended: "return", "exit1" for       *)
(* sys.exit(1), or the name of the exception it raised.                    *)
(***************************************************************************)
Cmd(st, lines, how) == [st |-> st, out |-> lines, how |-> how]

\* argparse's value or the empty string: getattr(args, k, '') or ''
OrEmpty(v) == PyOr(v, S(""))

\* lines 20-36
cmd_list(a, st) ==
    IF DNSManager_list_entries(st) = <<>> THEN Cmd(st, <<"No DNS entries found">>, "return")
    ELSE Cmd(st, <<"Name Address TTL Comment">>, "return")

\* lines 39-74
cmd_add(a, st) ==
    LET r == DNSManager_add_entry(st,
                [k \in (DOMAIN AddDefaults \cup {"name"}) \ {"disabled"} |->
                    CASE k = "name" -> a.name
                      [] k = "record_type" -> a.type
                      [] k = "address" -> OrEmpty(a.address)
                      [] k = "cname" -> OrEmpty(a.cname)
                      [] k = "ttl" -> a.ttl
                      [] k = "comment" -> a.comment
                      [] OTHER -> S("")])
    IN  IF r.raised = "ValueError" THEN Cmd(r.st, <<"Error">>, "exit1")
        ELSE IF r.raised # "" THEN Cmd(r.st, <<>>, r.raised)
        ELSE Cmd(r.st, <<"Added record">>, "return")

\* lines 77-95
cmd_update(a, st) ==
    LET r == DNSManager_update_entry(st, a.name,
                [k \in UpdateParams \ {"disabled"} |->
                    CASE k = "record_type" -> a.type
                      [] k = "address" -> a.address
                      [] k = "cname" -> a.cname
                      [] k = "ttl" -> a.ttl
                      [] k = "comment" -> a.comment
                      [] OTHER -> PyNone])
    IN  IF r.raised # "" THEN Cmd(r.st, <<>>, r.raised)
        ELSE IF PyTruthy(r.ret) THEN Cmd(r.st, <<"Updated DNS entry">>, "return")
        ELSE Cmd(r.st, <<"Error: not found">>, "exit1")

\* lines 98-106
cmd_delete(a, st) ==
    LET r == DNSManager_delete_entry(st, a.name)
    IN  IF r.raised # "" THEN Cmd(r.st, <<>>, r.raised)
        ELSE IF PyTruthy(r.ret) THEN Cmd(r.st, <<"Deleted DNS entry">>, "return")
        ELSE Cmd(r.st, <<"Error: not found">>, "exit1")

\* lines 109-124
cmd_search(a, st) ==
    IF search_entries("DNSManager", st, a.pattern, {"name", "address"}) = <<>>
    THEN Cmd(st, <<"No entries found matching">>, "return")
    ELSE Cmd(st, <<"Found entries matching">>, "return")

\* lines 127-135
cmd_enable(a, st) ==
    LET r == enable_entry("DNSManager", st, a.name)
    IN  IF r.raised # "" THEN Cmd(r.st, <<>>, r.raised)
        ELSE IF PyTruthy(r.ret) THEN Cmd(r.st, <<"Enabled DNS entry">>, "return")
        ELSE Cmd(r.st, <<"Error: not found">>, "exit1")

\* lines 138-146
cmd_disable(a, st) ==
    LET r == disable_entry("DNSManager", st, a.name)
    IN  IF r.raised # "" THEN Cmd(r.st, <<>>, r.raised)
        ELSE IF PyTruthy(r.ret) THEN Cmd(r.st, <<"Disabled DNS entry">>, "return")
        ELSE Cmd(r.st, <<"Error: not found">>, "exit1")

\* lines 149-165
cmd_validate(a, st) ==
    LET entries == DNSManager_list_entries(st)
    IN  IF Duplicates(entries) = {} /\ Conflicts(entries, 1, EmptyDict) = {}
        THEN Cmd(st, <<"No issues found">>, "return")
        ELSE Cmd(st, <<"Found issues">>, "return")

\* lines 168-177; a.output is "" for stdout, else a file that opens or not
cmd_export(a, st) ==
    LET r == export_entries("DNSManager", st, a.format)
    IN  IF r.raised # "" THEN Cmd(st, <<>>, r.raised)
        ELSE IF a.output = "" THEN Cmd(st, <<"output">>, "return")
        ELSE IF a.output = "unwritable" THEN Cmd(st, <<>>, "OSError")
        ELSE Cmd(st, <<"Exported to">>, "return")

\* lines 180-194
cmd_import(a, st) ==
    LET r == import_entries("DNSManager", st, a.input, a.format, a.overwrite, "name")
    IN  IF r.raised # "" THEN Cmd(r.st, <<"Reading from stdin...">>, r.raised)
        ELSE Cmd(r.st, <<"Reading from stdin...", "Import complete">>, "return")

\* lines 320-339
RunCommand(a, st) ==
    CASE a.command = "list" -> cmd_list(a, st)
      [] a.command = "add" -> cmd_add(a, st)
      [] a.command = "update" -> cmd_update(a, st)
      [] a.command = "delete" -> cmd_delete(a, st)
      [] a.command = "search" -> cmd_search(a, st)
      [] a.command = "enable" -> cmd_enable(a, st)
      [] a.command = "disable" -> cmd_disable(a, st)
      [] a.command = "validate" -> cmd_validate(a, st)
      [] a.command = "export" -> cmd_export(a, st)
      [] a.command = "import" -> cmd_import(a, st)

\* a slip in lines 290-294: enable and disable put with the read commands
RequiredPermission_ToggleIsRead(command) ==
    IF command \in {"list", "search", "validate", "export", "enable", "disable"}
    THEN <<"dns", Colon, "read">>
    ELSE <<"dns", Colon, "write">>

\* lines 290-294
RequiredPermission(command) ==
    IF command \in {"list", "search", "validate", "export"}
    THEN <<"dns", Colon, "read">>
    ELSE <<"dns", Colon, "write">>

(***************************************************************************)
(* The configurations the access model ranges over.                        *)
(***************************************************************************)
Str(t) == <<t>>
Perm(module, op) == <<module, Colon, op>>

ML(mods) == [list |-> TRUE, v |-> mods]
MS(m) == [list |-> FALSE, v |-> m]

DictRef(name, access) == [kind |-> "dict", name |-> name, access |-> access]
StrRef(s) == [kind |-> "str", s |-> s]

DnsAdmin == Str("dns-admin")
Ops == Str("ops")
NetDns == <<"net", Colon, "dns">>

GroupFile(g) == [valid |-> TRUE, data |-> g]
BadFile == [valid |-> FALSE, data |-> EmptyDict]

\* dns-admin: 'access' wins over 'default_access'
GDnsRw == [name |-> DnsAdmin, modules |-> ML(<<Str("dns")>>),
           access |-> Str("read-write"), default_access |-> Str("read-only")]
\* dns-admin: two modules, only a default_access
GDnsWo == [name |-> DnsAdmin, modules |-> ML(<<Str("dns"), Str("fw")>>),
           default_access |-> Str("write-only")]
\* dns-admin: a scalar module, no access level at all
GDnsBare == [name |-> DnsAdmin, modules |-> MS(Str("dns"))]
\* ops: wildcard modules, read-only
GOpsAll == [name |-> Ops, modules |-> MS(Wildcard), access |-> Str("read-only")]
\* ops: an empty 'access' falls through to 'default_access'
GOpsFw == [name |-> Ops, modules |-> ML(<<Str("fw")>>),
           access |-> <<>>, default_access |-> Str("read-write")]
\* a group whose name holds a colon
GNetDns == [name |-> NetDns, modules |-> ML(<<Str("dns")>>),
            access |-> Str("read-write")]

GroupDirs ==
    {[exists |-> FALSE, files |-> <<>>]} \cup
    {[exists |-> TRUE, files |-> d \o o] :
        d \in {<<>>, <<GroupFile(GDnsRw)>>, <<GroupFile(GDnsWo)>>,
               <<BadFile, GroupFile(GDnsBare)>>},
        o \in {<<>>, <<GroupFile(GOpsAll)>>, <<GroupFile(GOpsFw)>>,
               <<GroupFile(GNetDns)>>}}

GroupRefs ==
    { StrRef(DnsAdmin),
      StrRef(DnsAdmin \o <<Colon, "read-only">>),
      DictRef(DnsAdmin, Some(Str("write-only"))),
      DictRef(Ops, None),
      DictRef(NetDns, Some(Str("read-only"))),
      StrRef(Str("ghost")) }

SeqsUpTo(Elems, n) == UNION {[1..k -> Elems] : k \in 0..n}

\* the ways to cut a flat list of references into consecutive non-empty
\* permission entries: cuts is the set of positions after which a new entry starts
EntryStarts(flat, cuts) == {1} \cup {c + 1 : c \in cuts}
EntryEnd(flat, cuts, s) ==
    CHOOSE e \in s..Len(flat) :
        /\ (e = Len(flat) \/ e \in cuts)
        /\ \A j \in s..(e - 1) : j \notin cuts
RECURSIVE Entries(_, _, _)
Entries(flat, cuts, s) ==
    IF s > Len(flat) THEN <<>>
    ELSE LET e == EntryEnd(flat, cuts, s)
         IN  <<[groups |-> SubSeq(flat, s, e)]>> \o Entries(flat, cuts, e + 1)

PermissionLists ==
    {<<[groups |-> <<>>]>>} \cup
    UNION {{Entries(flat, cuts, 1) : cuts \in SUBSET (1..(Len(flat) - 1))} :
              flat \in SeqsUpTo(GroupRefs, MaxGroupRefs)}

UserFile(name, perms) ==
    [valid |-> TRUE, data |-> [username |-> name, permissions |-> perms]]

UserDirs ==
    {[exists |-> FALSE, files |-> <<>>],
     [exists |-> TRUE, files |-> <<>>],
     [exists |-> TRUE, files |-> <<BadFile>>],
     [exists |-> TRUE, files |-> <<UserFile("bob", <<>>)>>]} \cup
    {[exists |-> TRUE, files |-> <<UserFile("alice", p)>>] : p \in PermissionLists} \cup
    {[exists |-> TRUE,
      files |-> <<UserFile("alice", <<>>), UserFile("alice", p), UserFile("bob", <<>>)>>] :
        p \in {q \in PermissionLists : Len(q) = 2}}

\* the processes: (effective uid, user name of the real uid)
Processes == {<<0, "root">>, <<1000, "alice">>, <<1000, "carol">>}

Usernames == {"alice", "bob", "carol", "root"}

RequiredPermissions == {Perm("dns", "read"), Perm("dns", "write"), Perm("fw", "write")}

(***************************************************************************)
(* The access model: a process calls the functions of access.py.           *)
(***************************************************************************)
AccessInit ==
    /\ \E p \in Processes : euid = p[1] /\ username = p[2]
    /\ usersDir \in UserDirs
    /\ groupsDir \in GroupDirs
    /\ lastOp = "none"
    /\ lastArg = <<>>
    /\ lastRet = FALSE
    /\ lastPerms = {}
    /\ lastRaised = ""
    /\ routersDir = [exists |-> FALSE, uid |-> 0, files |-> <<>>]
    /\ router = [entries |-> <<>>, sent |-> <<>>, nextId |-> 1]
    /\ pc = "none"
    /\ args = <<>>
    /\ required = <<>>
    /\ routers = <<>>
    /\ routerConfig = EmptyDict
    /\ loadCalled = FALSE /\ connCalled = FALSE /\ connected = FALSE
    /\ out = <<>>
    /\ exitStatus = -1
    /\ unhandled = ""
    /\ MgrIdle

CallGetUserPermissions ==
    \E name \in Usernames :
        /\ lastOp' = "get_user_permissions"
        /\ lastArg' = Str(name)
        /\ lastPerms' = get_user_permissions(name, load_users, load_groups)
        /\ lastRet' = FALSE
        /\ lastRaised' = ""
        /\ UNCHANGED <<euid, username, usersDir, groupsDir, cliVars, mgrVars>>

CallCheckPermission ==
    \E p \in RequiredPermissions :
        /\ lastOp' = "check_permission"
        /\ lastArg' = p
        /\ lastRet' = check_permission(p)
        /\ lastPerms' = {}
        /\ lastRaised' = ""
        /\ UNCHANGED <<euid, username, usersDir, groupsDir, cliVars, mgrVars>>

CallRequirePermission ==
    \E p \in RequiredPermissions :
        /\ lastOp' = "require_permission"
        /\ lastArg' = p
        /\ lastRaised' = require_permission(p)
        /\ lastRet' = FALSE
        /\ lastPerms' = {}
        /\ UNCHANGED <<euid, username, usersDir, groupsDir, cliVars, mgrVars>>

AccessNext ==
    \/ CallGetUserPermissions
    \/ CallCheckPermission
    \/ CallRequirePermission

AccessSpec == AccessInit /\ [][AccessNext]_vars

(***************************************************************************)
(* The runs of mikro-dns the command line model ranges over.               *)
(***************************************************************************)
NoText == [format |-> "json", ok |-> TRUE, rows |-> <<>>]

\* the Namespace argparse gives; an option not given is None
NoArgs ==
    [command |-> "list", router |-> PyNone, name |-> S(""), type |-> PyNone,
     address |-> PyNone, cname |-> PyNone, ttl |-> PyNone, comment |-> PyNone,
     pattern |-> "", format |-> "json", output |-> "", overwrite |-> FALSE,
     input |-> NoText]

Names == {S("a.lan"), S("b.lan")}

\* texts given to import: hand-written records, an export of a router, not JSON
ImportTexts ==
    {[format |-> "json", ok |-> FALSE, rows |-> <<>>],
     [format |-> "json", ok |-> TRUE,
      rows |-> <<[name |-> S("a.lan"), address |-> S("10.0.0.9")],
                 [name |-> S("c.lan"), address |-> S("10.0.0.3")]>>],
     [format |-> "csv", ok |-> TRUE,
      rows |-> <<[name |-> S("c.lan"), address |-> S("10.0.0.3"), comment |-> S("")],
                 [name |-> S(""), address |-> S("10.0.0.4"), comment |-> S("")]>>],
     [format |-> "json", ok |-> TRUE,
      rows |-> <<DnsEntry((".id" :> S("*1")) @@ [name |-> S("c.lan"),
                                                 address |-> S("10.0.0.3")])>>]}

CommandLines ==
    {[NoArgs EXCEPT !.command = c] : c \in {"list", "validate"}}
    \cup {[NoArgs EXCEPT !.command = "add", !.name = n, !.type = t[1],
                         !.address = t[2], !.cname = t[3],
                         !.ttl = S("1d"), !.comment = S("")] :
             n \in Names,
             t \in {<<S("A"), S("10.0.0.1"), PyNone>>, <<S("A"), PyNone, PyNone>>,
                    <<S("CNAME"), PyNone, S("a.lan")>>, <<S("NXDOMAIN"), PyNone, PyNone>>}}
    \cup {[NoArgs EXCEPT !.command = "update", !.name = n, !.address = ad, !.comment = cm] :
             n \in Names, ad \in {PyNone, S("10.0.0.2")}, cm \in {PyNone, S("")}}
    \cup {[NoArgs EXCEPT !.command = c, !.name = n] :
             c \in {"delete", "enable", "disable"}, n \in Names}
    \cup {[NoArgs EXCEPT !.command = "search", !.pattern = pt] : pt \in {"*", "b.lan"}}
    \cup {[NoArgs EXCEPT !.command = "export", !.format = f, !.output = o] :
             f \in {"json", "csv"}, o \in {"", "out.txt", "unwritable"}}
    \cup {[NoArgs EXCEPT !.command = "import", !.format = t.format, !.input = t,
                         !.overwrite = ow] :
             t \in ImportTexts, ow \in BOOLEAN}

RouterArgs == {PyNone, S("r1"), S("r9")}

RouterFile(uid, data) == [uid |-> uid, valid |-> TRUE, data |-> data]
BadRouterFile == [uid |-> 0, valid |-> FALSE, data |-> EmptyDict]

R1 == [name |-> S("r1"), host |-> S("10.0.0.254"), username |-> S("api"),
       password |-> S("secret")]
\* a router file without a host
R2 == [name |-> S("r2"), username |-> S("api"), password |-> S("secret")]
R3 == [name |-> S("r3"), host |-> S("10.0.0.253"), username |-> S("api"),
       password |-> S("secret")]

RouterDirs ==
    {[exists |-> FALSE, uid |-> 0, files |-> <<>>],
     [exists |-> TRUE, uid |-> 1000, files |-> <<RouterFile(0, R1)>>],
     [exists |-> TRUE, uid |-> 0, files |-> <<BadRouterFile>>],
     [exists |-> TRUE, uid |-> 0, files |-> <<RouterFile(1000, R1)>>],
     [exists |-> TRUE, uid |-> 0,
      files |-> <<RouterFile(1000, R3), BadRouterFile, RouterFile(0, R1)>>],
     [exists |-> TRUE, uid |-> 0, files |-> <<RouterFile(0, R2), RouterFile(0, R1)>>]}

Table(entries) == [entries |-> entries, sent |-> <<>>, nextId |-> Len(entries) + 1]

EA == (".id" :> S("*1")) @@ [name |-> S("a.lan"), address |-> S("10.0.0.1"),
                             disabled |-> S("false")]
EADisabled == (".id" :> S("*1")) @@ [name |-> S("a.lan"), address |-> S("10.0.0.1"),
                                     disabled |-> S("true")]
EB == (".id" :> S("*2")) @@ [name |-> S("b.lan"), type |-> S("CNAME"),
                             cname |-> S("a.lan"), ttl |-> S("1h")]

RouterTables == {Table(<<>>), Table(<<EA>>), Table(<<EADisabled, EB>>)}

CliUserDirs ==
    {[exists |-> FALSE, files |-> <<>>],
     [exists |-> TRUE,
      files |-> <<UserFile("alice",
                     <<[groups |-> <<StrRef(DnsAdmin \o <<Colon, "read-only">>)>>]>>)>>],
     [exists |-> TRUE,
      files |-> <<UserFile("alice", <<[groups |-> <<StrRef(DnsAdmin)>>]>>)>>]}

(***************************************************************************)
(* mikro_dns/cli.py: main(), one action per step.                          *)
(***************************************************************************)
CliInit ==
    /\ \E p \in Processes : euid = p[1] /\ username = p[2]
    /\ usersDir \in CliUserDirs
    /\ groupsDir = [exists |-> TRUE, files |-> <<GroupFile(GDnsRw)>>]
    /\ lastOp = "none" /\ lastArg = <<>> /\ lastRet = FALSE
    /\ lastPerms = {} /\ lastRaised = ""
    /\ routersDir \in RouterDirs
    /\ router \in RouterTables
    /\ pc = "parse"
    /\ args = NoArgs
    /\ required = <<>>
    /\ routers = <<>>
    /\ routerConfig = EmptyDict
    /\ loadCalled = FALSE /\ connCalled = FALSE /\ connected = FALSE
    /\ out = <<>>
    /\ exitStatus = -1
    /\ unhandled = ""
    /\ MgrIdle

\* sys.exit(status), or an exception leaving main(): the interpreter prints
\* the traceback and the status is 1
Exit(lines, status, exc) ==
    /\ pc' = "exit"
    /\ out' = out \o lines
    /\ exitStatus' = status
    /\ unhandled' = exc

\* line 281: a command line with a command
Main_ParseArgs ==
    /\ pc = "parse"
    /\ \E a \in CommandLines, r \in RouterArgs : args' = [a EXCEPT !.router = r]
    /\ pc' = "check"
    /\ UNCHANGED <<accessVars, mgrVars, routersDir, router, required, routers, routerConfig,
                   loadCalled, connCalled, connected, out, exitStatus, unhandled>>

\* lines 287-297
Main_CheckPermission ==
    /\ pc = "check"
    /\ required' = RequiredPermission(args.command)
    /\ IF require_permission(RequiredPermission(args.command)) = "AccessDeniedError"
       THEN Exit(<<"Permission denied">>, 1, "")
       ELSE pc' = "load" /\ UNCHANGED <<out, exitStatus, unhandled>>
    /\ UNCHANGED <<accessVars, mgrVars, routersDir, router, args, routers, routerConfig,
                   loadCalled, connCalled, connected>>

\* lines 299-304
Main_LoadRouters ==
    /\ pc = "load"
    /\ loadCalled' = TRUE
    /\ LET r == load_routers(routersDir, euid)
       IN  IF r.raised = "FileNotFoundError"
           THEN Exit(<<"Error">>, 1, "") /\ UNCHANGED routers
           ELSE IF r.raised # ""
           THEN Exit(<<"Traceback">>, 1, r.raised) /\ UNCHANGED routers
           ELSE /\ routers' = r.routers
                /\ pc' = "config"
                /\ UNCHANGED <<out, exitStatus, unhandled>>
    /\ UNCHANGED <<accessVars, mgrVars, routersDir, router, args, required, routerConfig,
                   connCalled, connected>>

\* line 306
Main_GetRouterConfig ==
    /\ pc = "config"
    /\ LET r == get_router_config(routers, args.router)
       IN  IF r.raised # ""
           THEN Exit(<<"Traceback">>, 1, r.raised) /\ UNCHANGED routerConfig
           ELSE /\ routerConfig' = r.config
                /\ pc' = "connect"
                /\ UNCHANGED <<out, exitStatus, unhandled>>
    /\ UNCHANGED <<accessVars, mgrVars, routersDir, router, args, required, routers,
                   loadCalled, connCalled, connected>>

\* lines 309-316 and 341-343: the client is built from the configuration and
\* connects; the router answers or not
Main_Connect ==
    /\ pc = "connect"
    /\ IF ~({"host", "username", "password"} \subseteq DOMAIN routerConfig)
       THEN Exit(<<"Error">>, 1, "") /\ UNCHANGED <<connCalled, connected>>
       ELSE /\ connCalled' = TRUE
            /\ \E reachable \in BOOLEAN :
                  IF reachable
                  THEN /\ connected' = TRUE
                       /\ pc' = "run"
                       /\ UNCHANGED <<out, exitStatus, unhandled>>
                  ELSE Exit(<<"Error">>, 1, "") /\ UNCHANGED connected
    /\ UNCHANGED <<accessVars, mgrVars, routersDir, router, args, required, routers,
                   routerConfig, loadCalled>>

\* lines 317-343: the command runs, the with block disconnects
Main_RunCommand ==
    /\ pc = "run"
    /\ \E c \in {RunCommand(args, router)} :
           /\ router' = c.st
           /\ IF c.how = "return" THEN Exit(c.out, 0, "")
              ELSE IF c.how = "exit1" THEN Exit(c.out, 1, "")
              ELSE Exit(c.out \o <<"Error">>, 1, "")
    /\ connected' = FALSE
    /\ UNCHANGED <<accessVars, mgrVars, routersDir, args, required, routers, routerConfig,
                   loadCalled, connCalled>>

CliNext ==
    \/ Main_ParseArgs
    \/ Main_CheckPermission
    \/ Main_LoadRouters
    \/ Main_GetRouterConfig
    \/ Main_Connect
    \/ Main_RunCommand

CliSpec == CliInit /\ [][CliNext]_vars

(***************************************************************************)
(* Claims about access.py, checked under AccessSpec.                       *)
(***************************************************************************)
NoUsersLoaded == DOMAIN load_users = {}

\* the user named in the last get_user_permissions call
CalledName == lastArg[1]

\* C1: when no user configuration is loaded (users.d missing or yielding no
\* users) get_user_permissions returns exactly {'*'} for every username and
\* check_permission returns True for every permission, whatever the groups.
C1_OpenWhenNoUsers ==
    NoUsersLoaded =>
        /\ lastOp = "get_user_permissions" => lastPerms = {Wildcard}
        /\ lastOp = "check_permission" => lastRet = TRUE

C1_Witness ==
    /\ usersDir.exists /\ usersDir.files # <<>> /\ NoUsersLoaded
    /\ DOMAIN load_groups # {}
    /\ euid # 0
    /\ lastOp = "check_permission" /\ lastRet = TRUE

\* C2: when at least one user is configured and the current non-root user is
\* not among them, get_user_permissions returns the empty set,
\* check_permission returns False for every permission and
\* require_permission raises AccessDeniedError.
C2_UnknownUserDenied ==
    (~NoUsersLoaded /\ euid # 0 /\ username \notin DOMAIN load_users) =>
        /\ (lastOp = "get_user_permissions" /\ CalledName = username)
              => lastPerms = {}
        /\ lastOp = "check_permission" => lastRet = FALSE
        /\ lastOp = "require_permission" => lastRaised = "AccessDeniedError"

C2_Witness ==
    /\ ~NoUsersLoaded /\ euid # 0 /\ username \notin DOMAIN load_users
    /\ DOMAIN load_groups # {}
    /\ lastOp = "require_permission" /\ lastRaised = "AccessDeniedError"

\* C3: check_permission returns True for every permission when the effective
\* uid is 0, whatever users and groups are configured, also when root is not
\* a configured user.
C3_RootAlwaysAllowed ==
    (euid = 0 /\ lastOp = "check_permission") => lastRet = TRUE

C3_Witness ==
    /\ euid = 0 /\ ~NoUsersLoaded /\ username \notin DOMAIN load_users
    /\ lastOp = "check_permission" /\ lastRet = TRUE

\* the group references of a configured user: <<entry, index>> places
RefPlaces(user) ==
    {pl \in (1..Len(user.permissions)) \X (1..MaxGroupRefs + 1) :
        pl[2] <= Len(user.permissions[pl[1]].groups)}
RefAt(user, pl) == user.permissions[pl[1]].groups[pl[2]]

\* the references of a user that name a defined group
DefinedRefs(user, groups) ==
    {pl \in RefPlaces(user) : group_name(RefAt(user, pl)) \in DOMAIN groups}

\* the effective access level of a reference to group g, as the claim words it
EffectiveLevel(ref, g) ==
    IF /\ ~Truthy(access_override(ref))
       /\ "access" \notin DOMAIN g
       /\ "default_access" \notin DOMAIN g
    THEN <<"read-only">>
    ELSE access_level(access_override(ref), g)

\* the per-module permissions the claim gives a level
ClaimedPermissions(g, level) ==
    {Perm(ModuleList(g)[i][1], "read") :
        i \in {j \in 1..Len(ModuleList(g)) :
                  level \in {<<"read-write">>, <<"read-only">>}}}
    \cup
    {Perm(ModuleList(g)[i][1], "write") :
        i \in {j \in 1..Len(ModuleList(g)) :
                  level \in {<<"read-write">>, <<"write-only">>}}}

\* a group whose modules value is the string "*"
HasWildcardModules(g) ==
    "modules" \in DOMAIN g /\ ~g.modules.list /\ g.modules.v = <<"*">>

\* C4: for a configured user get_user_permissions returns the union, over the
\* referenced groups that exist, of the per-module permissions of the
\* effective access level (read-write: read and write, read-only: read,
\* write-only: write; no level anywhere: read-only); an undefined group adds
\* nothing.  A group with wildcard modules adds '*' instead (C6).
C4_UnionOfGroupPermissions ==
    (lastOp = "get_user_permissions" /\ CalledName \in DOMAIN load_users) =>
        LET user == load_users[CalledName]
            groups == load_groups
            refs == DefinedRefs(user, groups)
            g(pl) == groups[group_name(RefAt(user, pl))]
        IN  lastPerms =
              UNION {ClaimedPermissions(g(pl), EffectiveLevel(RefAt(user, pl), g(pl))) :
                        pl \in {q \in refs : ~HasWildcardModules(g(q))}}
              \cup {Wildcard : pl \in {q \in refs : HasWildcardModules(g(q))}}

C4_Witness ==
    /\ lastOp = "get_user_permissions" /\ CalledName \in DOMAIN load_users
    /\ Len(load_users[CalledName].permissions) = 2
    /\ Cardinality(DefinedRefs(load_users[CalledName], load_groups)) = 1
    /\ lastPerms = {Perm("dns", "write"), Perm("fw", "write")}

\* the string spelling of a dict reference: "group:level", or the plain
\* group name when the dict carries no access
StringForm(ref) ==
    IF ref.kind = "dict"
    THEN IF ref.access.some THEN StrRef(ref.name \o <<Colon>> \o ref.access.v)
         ELSE StrRef(ref.name)
    ELSE ref

\* a user with every dict reference spelled as a string
WithStringForms(user) ==
    [user EXCEPT !.permissions =
        [e \in 1..Len(user.permissions) |->
            [groups |-> [i \in 1..Len(user.permissions[e].groups) |->
                            StringForm(user.permissions[e].groups[i])]]]]

\* override first, then the group's 'access', then 'default_access'
PrecedenceLevel(ref, g) ==
    IF ref.kind = "dict" /\ Truthy(ref.access) THEN ref.access.v
    ELSE IF "access" \in DOMAIN g /\ g.access # <<>> THEN g.access
    ELSE IF "default_access" \in DOMAIN g THEN g.default_access
    ELSE <<"read-only">>

\* C5: an override on a group reference takes precedence over the group's
\* 'access', which takes precedence over 'default_access'; the string form
\* "group:level" and the dict form {name: group, access: level} resolve to
\* the same permission set for every group and level, and a plain group name
\* resolves as a reference with no override.
C5_OverridePrecedenceAndForms ==
    (lastOp = "get_user_permissions" /\ CalledName \in DOMAIN load_users) =>
        LET user == load_users[CalledName]
            groups == load_groups
        IN  /\ \A pl \in RefPlaces(user) :
                 LET ref == RefAt(user, pl)
                 IN  (ref.kind = "dict" /\ ref.name \in DOMAIN groups
                        /\ ~HasWildcardModules(groups[ref.name]))
                     => ClaimedPermissions(groups[ref.name],
                                           PrecedenceLevel(ref, groups[ref.name]))
                           \subseteq lastPerms
            /\ lastPerms =
                 get_user_permissions(CalledName,
                     DictSet(load_users, CalledName, WithStringForms(user)), groups)

\* C6: a group whose modules value is the wildcard "*" contributes '*' to
\* every user referencing it, and a user holding '*' passes check_permission
\* for every required permission.
C6_WildcardModules ==
    /\ (lastOp = "get_user_permissions" /\ CalledName \in DOMAIN load_users) =>
          LET user == load_users[CalledName]
              groups == load_groups
          IN  (\E pl \in DefinedRefs(user, groups) :
                  HasWildcardModules(groups[group_name(RefAt(user, pl))]))
              => Wildcard \in lastPerms
    /\ (lastOp = "check_permission"
          /\ Wildcard \in get_user_permissions(username, load_users, load_groups))
       => lastRet = TRUE

C6_Witness ==
    /\ lastOp = "check_permission" /\ euid # 0 /\ lastArg = Perm("fw", "write")
    /\ username \in DOMAIN load_users
    /\ \E pl \in DefinedRefs(load_users[username], load_groups) :
          HasWildcardModules(load_groups[group_name(RefAt(load_users[username], pl))])
    /\ lastRet = TRUE

\* C7: require_permission(p) raises AccessDeniedError exactly when
\* check_permission(p) is False; for a non-root configured user
\* check_permission(p) is True exactly when the resolved permission set holds
\* '*', p itself or '<module of p>:*'.
C7_RequireAndCheck ==
    /\ lastOp = "require_permission" =>
          (lastRaised = "AccessDeniedError" <=> ~check_permission(lastArg))
    /\ lastOp = "require_permission" => lastRaised \in {"", "AccessDeniedError"}
    /\ (lastOp = "check_permission" /\ euid # 0 /\ username \in DOMAIN load_users) =>
          LET held == get_user_permissions(username, load_users, load_groups)
          IN  lastRet = (\/ <<"*">> \in held
                         \/ lastArg \in held
                         \/ <<lastArg[1], Colon, "*">> \in held)

C7_Witness ==
    /\ lastOp = "require_permission" /\ lastRaised = "AccessDeniedError"
    /\ lastArg = Perm("dns", "write")
    /\ euid # 0 /\ username \in DOMAIN load_users
    /\ Perm("dns", "read") \in get_user_permissions(username, load_users, load_groups)

(***************************************************************************)
(* Claims about the mikro-dns command line, checked under CliSpec.         *)
(***************************************************************************)
Printed(line) == \E i \in 1..Len(out) : out[i] = line

\* C8: list, search, validate and export require 'dns:read'; add, update,
\* delete, enable, disable and import require 'dns:write'; the permission is
\* checked before the router configuration is loaded and before any
\* connection is opened, so a denied command exits with status 1 without
\* connecting to or changing a router.
C8_PermissionCheckedFirst ==
    /\ pc \notin {"parse", "check"} =>
          /\ args.command \in {"list", "search", "validate", "export"}
                => required = <<"dns", ":", "read">>
          /\ args.command \in {"add", "update", "delete", "enable", "disable", "import"}
                => required = <<"dns", ":", "write">>
    /\ (loadCalled \/ connCalled \/ connected \/ router.sent # <<>>) =>
          (pc \notin {"parse", "check"} /\ check_permission(required))
    /\ (pc = "exit" /\ ~check_permission(required)) =>
          /\ exitStatus = 1
          /\ ~loadCalled /\ ~connCalled /\ ~connected
          /\ router.sent = <<>>

C8_Witness ==
    /\ pc = "exit" /\ args.command = "enable"
    /\ username \in DOMAIN load_users /\ euid # 0
    /\ check_permission(<<"dns", ":", "read">>)
    /\ out = <<"Permission denied">> /\ exitStatus = 1
    /\ ~loadCalled /\ ~connCalled /\ router.sent = <<>>

\* C9: every failure of a run after argument parsing (permission denied,
\* router directory missing or not owned by root, no valid router
\* configuration, unknown --router name, connection failure, an error raised
\* by the command) ends by printing an error message and exiting with
\* status 1; no failure escapes as an unhandled exception.
C9_EveryFailureHandled ==
    pc = "exit" =>
        /\ unhandled = ""
        /\ exitStatus \in {0, 1}
        /\ exitStatus = 1 =>
              (Printed("Error") \/ Printed("Error: not found")
                 \/ Printed("Permission denied"))

\* C10: for an existing entry named n, 'mikro-dns enable n' sends the router
\* one update for that entry's id whose disabled value is the enabled one
\* ('no' / false), never the disabled one, and reports 'Enabled' only then.
C10_EnableEnables ==
    (pc = "exit" /\ args.command = "enable"
       /\ (exitStatus = 0 \/ Printed("Enabled DNS entry"))) =>
        /\ Len(router.sent) = 1
        /\ router.sent[1].op = "update"
        /\ \E i \in 1..Len(router.entries) :
              /\ DGet(router.entries[i], "name") = args.name
              /\ router.entries[i][".id"] = router.sent[1].params[".id"]
        /\ DGet(router.sent[1].params, "disabled") \in {S("no"), S("false"), B(FALSE)}

(***************************************************************************)
(* A client holding one manager object and calling its methods one after   *)
(* another on one router.  router.sent holds the requests of the call made *)
(* last; before is the router as that call found it.                       *)
(***************************************************************************)
\* the most calls one run of the client makes
MaxCalls == 2

EA2 == (".id" :> S("*2")) @@ [name |-> S("a.lan"), address |-> S("10.0.0.7")]

\* an empty router, one entry, two entries with different fields, and a
\* router on which two entries carry one name
MgrTables == {Table(<<>>), Table(<<EA>>), Table(<<EADisabled, EB>>), Table(<<EA, EA2>>)}

MgrNames == {S("a.lan"), S("b.lan"), S("z.lan")}

\* keyword arguments of add_entry besides name
AddFields ==
    {[record_type |-> S("A"), address |-> S("10.0.0.3")],
     [record_type |-> S("A")],
     [record_type |-> S("A"), address |-> S("10.0.0.3"), cname |-> S("a.lan"),
      comment |-> S("note"), disabled |-> B(TRUE)],
     [address |-> S("10.0.0.3"), ttl |-> S("1h")],
     [record_type |-> S("AAAA"), address |-> S("fd00::3")],
     [record_type |-> S("CNAME"), cname |-> S("a.lan")],
     [record_type |-> S("CNAME"), address |-> S("10.0.0.3")],
     [record_type |-> S("MX"), mx_exchange |-> S("mail.lan"), mx_preference |-> S("10")],
     [record_type |-> S("MX"), mx_preference |-> S("10")],
     [record_type |-> S("TXT"), text |-> S("v=spf1")],
     [record_type |-> S("TXT")],
     [record_type |-> S("NS"), ns |-> S("ns.lan")],
     [record_type |-> S("SRV"), srv_target |-> S("sip.lan"), srv_port |-> S("5060"),
      address |-> S("10.0.0.3")],
     [record_type |-> S("SRV"), srv_port |-> S("5060")],
     [record_type |-> S("FWD"), forward_to |-> S("10.0.0.53")],
     [record_type |-> S("REGEXP"), regexp |-> S(".*")],
     [record_type |-> S("NXDOMAIN"), address |-> S("10.0.0.3")]}

AddCalls ==
    {DictMerge(f, [name |-> S("c.lan")]) : f \in AddFields}
    \cup {[name |-> S("a.lan"), address |-> S("10.0.0.3")],
          [name |-> S("a.lan"), record_type |-> S("CNAME"), cname |-> S("b.lan")]}

\* keyword arguments of update_entry besides name
UpdateCalls ==
    {EmptyDict,
     [address |-> S("10.0.0.2")],
     [address |-> PyNone, comment |-> S("")],
     [record_type |-> S("CNAME"), cname |-> S("x.lan"), ttl |-> S("1h"),
      disabled |-> B(TRUE)],
     [disabled |-> B(FALSE)]}

\* the text export_entries of a DNSManager gives for a router with two entries
DnsExport(format) == export_entries("DNSManager", Table(<<EA, EB>>), format).text

\* the data given to import_entries: records written by hand (one name
\* twice; an empty key; records carrying an '.id'), text that is not JSON,
\* and exports of a router
ImportData ==
    {[format |-> "json", ok |-> TRUE,
      rows |-> <<[name |-> S("a.lan"), address |-> S("10.0.0.9")],
                 [name |-> S("c.lan"), address |-> S("10.0.0.3")],
                 [name |-> S("c.lan"), address |-> S("10.0.0.4")]>>],
     [format |-> "csv", ok |-> TRUE,
      rows |-> <<[name |-> S("c.lan"), address |-> S("10.0.0.3"), comment |-> S("")],
                 [name |-> S(""), address |-> S("10.0.0.4"), comment |-> S("")]>>],
     [format |-> "json", ok |-> TRUE,
      rows |-> <<(".id" :> S("*7")) @@ [name |-> S("a.lan"), address |-> S("10.0.0.9")],
                 (".id" :> S("*1")) @@ [name |-> S("d.lan"), address |-> S("10.0.0.5")]>>],
     [format |-> "json", ok |-> FALSE, rows |-> <<>>],
     [format |-> "xml", ok |-> FALSE, rows |-> <<>>],
     DnsExport("json"),
     DnsExport("csv")}

ExportFormats == {"json", "csv", "xml"}

MgrInit ==
    /\ euid = 0 /\ username = "root"
    /\ usersDir = [exists |-> FALSE, files |-> <<>>]
    /\ groupsDir = [exists |-> FALSE, files |-> <<>>]
    /\ lastOp = "none" /\ lastArg = <<>> /\ lastRet = FALSE
    /\ lastPerms = {} /\ lastRaised = ""
    /\ routersDir = [exists |-> FALSE, uid |-> 0, files |-> <<>>]
    /\ router \in MgrTables
    /\ pc = "none"
    /\ args = <<>>
    /\ required = <<>>
    /\ routers = <<>>
    /\ routerConfig = EmptyDict
    /\ loadCalled = FALSE /\ connCalled = FALSE /\ connected = FALSE
    /\ out = <<>>
    /\ exitStatus = -1
    /\ unhandled = ""
    /\ mgr \in {"DNSManager", "ResourceManager"}
    /\ callOp = "none" /\ callArgs = NoCallArgs
    /\ callRet = NoRet /\ callRaised = ""
    /\ before = [entries |-> <<>>, sent |-> <<>>, nextId |-> 1]
    /\ nCalls = 0

\* the router as a call finds it
Begin == [router EXCEPT !.sent = <<>>]

\* a call of method op with arguments a that leaves the router st
Called(op, a, st, ret, raised) ==
    /\ nCalls' = nCalls + 1
    /\ callOp' = op
    /\ callArgs' = a
    /\ before' = Begin
    /\ router' = st
    /\ callRet' = ret
    /\ callRaised' = raised
    /\ UNCHANGED <<accessVars, mgr, routersDir, pc, args, required, routers,
                   routerConfig, loadCalled, connCalled, connected, out,
                   exitStatus, unhandled>>

\* dns_manager.add_entry(name=..., ...)
Call_add_entry ==
    /\ nCalls < MaxCalls
    /\ mgr = "DNSManager"
    /\ \E kw \in AddCalls :
         \E r \in {add_entry(mgr, Begin, kw)} :
            Called("add_entry", [NoCallArgs EXCEPT !.name = kw.name, !.kwargs = kw],
                   r.st, [NoRet EXCEPT !.val = r.ret], r.raised)

\* dns_manager.update_entry(name, ...)
Call_update_entry ==
    /\ nCalls < MaxCalls
    /\ mgr = "DNSManager"
    /\ \E n \in MgrNames, kw \in UpdateCalls :
         \E r \in {update_entry(mgr, Begin, n, kw)} :
            Called("update_entry", [NoCallArgs EXCEPT !.name = n, !.kwargs = kw],
                   r.st, [NoRet EXCEPT !.val = r.ret], r.raised)

\* dns_manager.delete_entry(name)
Call_delete_entry ==
    /\ nCalls < MaxCalls
    /\ mgr = "DNSManager"
    /\ \E n \in MgrNames :
         \E r \in {DNSManager_delete_entry(Begin, n)} :
            Called("delete_entry", [NoCallArgs EXCEPT !.name = n],
                   r.st, [NoRet EXCEPT !.val = r.ret], r.raised)

\* dns_manager.enable_entry(name)
Call_enable_entry ==
    /\ nCalls < MaxCalls
    /\ mgr = "DNSManager"
    /\ \E n \in MgrNames :
         \E r \in {enable_entry(mgr, Begin, n)} :
            Called("enable_entry", [NoCallArgs EXCEPT !.name = n],
                   r.st, [NoRet EXCEPT !.val = r.ret], r.raised)

\* dns_manager.disable_entry(name)
Call_disable_entry ==
    /\ nCalls < MaxCalls
    /\ mgr = "DNSManager"
    /\ \E n \in MgrNames :
         \E r \in {disable_entry(mgr, Begin, n)} :
            Called("disable_entry", [NoCallArgs EXCEPT !.name = n],
                   r.st, [NoRet EXCEPT !.val = r.ret], r.raised)

\* manager.export_entries(format)
Call_export_entries ==
    /\ nCalls < MaxCalls
    /\ \E f \in ExportFormats :
         \E r \in {export_entries(mgr, Begin, f)} :
            Called("export_entries", [NoCallArgs EXCEPT !.format = f],
                   Begin, [NoRet EXCEPT !.text = r.text], r.raised)

\* manager.import_entries(data, format, overwrite, key_field)
Call_import_entries ==
    /\ nCalls < MaxCalls
    /\ \E d \in ImportData, ow \in BOOLEAN, kf \in {"name", "address"} :
         /\ kf = "address" => (mgr = "ResourceManager" /\ d.format = "json" /\ d.ok)
         /\ \E r \in {import_entries(mgr, Begin, d, d.format, ow, kf)} :
              Called("import_entries",
                     [NoCallArgs EXCEPT !.data = d, !.format = d.format,
                                        !.overwrite = ow, !.key_field = kf],
                     r.st, [NoRet EXCEPT !.stats = r.stats], r.raised)

MgrNext ==
    \/ Call_add_entry
    \/ Call_update_entry
    \/ Call_delete_entry
    \/ Call_enable_entry
    \/ Call_disable_entry
    \/ Call_export_entries
    \/ Call_import_entries

MgrSpec == MgrInit /\ [][MgrNext]_vars

(***************************************************************************)
(* Claims about the managers, checked under MgrSpec.                       *)
(***************************************************************************)
\* the places of the entries of router st whose field has the value v
Places(st, field, v) == {i \in 1..Len(st.entries) : DGet(st.entries[i], field) = v}

FirstOf(I) == CHOOSE i \in I : \A j \in I : i <= j

\* no two entries of router st have the same value of the field
UniqueField(st, field) ==
    \A i, j \in 1..Len(st.entries) :
        i # j => DGet(st.entries[i], field) # DGet(st.entries[j], field)

\* the call left the router's table as it found it and sent nothing
RouterUntouched == router.sent = <<>> /\ router.entries = before.entries

\* C11: for an existing entry named n, disable_entry(n) sends one update for
\* that entry's id that sets it disabled, leaves the number of entries
\* unchanged and returns a true value; when no entry is named n it sends
\* nothing and returns a false value, and 'mikro-dns disable n' ends in
\* sys.exit(1).
C11_DisableDisables ==
    callOp = "disable_entry" =>
        LET named == Places(before, "name", callArgs.name)
        IN  /\ callRaised = ""
            /\ IF named # {}
               THEN /\ PyTruthy(callRet.val)
                    /\ Len(router.sent) = 1
                    /\ router.sent[1].op = "update"
                    /\ router.sent[1].params[".id"] = before.entries[FirstOf(named)][".id"]
                    /\ DGet(router.sent[1].params, "disabled") \in {S("yes"), S("true"), B(TRUE)}
                    /\ Len(router.entries) = Len(before.entries)
                    /\ router.entries[FirstOf(named)]["disabled"] = S("true")
               ELSE /\ ~PyTruthy(callRet.val)
                    /\ RouterUntouched
                    /\ cmd_disable([NoArgs EXCEPT !.command = "disable",
                                                  !.name = callArgs.name], before).how = "exit1"

C11_Witness ==
    /\ callOp = "disable_entry" /\ callArgs.name = S("a.lan")
    /\ before.entries = <<EA>>
    /\ router.entries = <<EADisabled>>
    /\ PyTruthy(callRet.val)

\* C12: add_entry(name, ...) raises ValueError and sends no add whenever an
\* entry with that name is on the router; so add_entry, update_entry and
\* delete_entry keep the entry names of a router unique.
C12_AddKeepsNamesUnique ==
    /\ (callOp = "add_entry" /\ Places(before, "name", callArgs.name) # {}) =>
          (callRaised = "ValueError" /\ RouterUntouched)
    /\ (callOp \in {"add_entry", "update_entry", "delete_entry"}
          /\ UniqueField(before, "name")) => UniqueField(router, "name")

C12_Witness ==
    /\ nCalls = 2 /\ callOp = "add_entry" /\ callArgs.name = S("c.lan")
    /\ Places(before, "name", S("c.lan")) # {}
    /\ UniqueField(before, "name")
    /\ callRaised = "ValueError"

\* the field each record type requires and the fields that belong to it,
\* as keyword parameter and under the router's name
TypeRequires ==
    [A |-> <<"address", "address">>, AAAA |-> <<"address", "address">>,
     CNAME |-> <<"cname", "cname">>, MX |-> <<"mx_exchange", "mx-exchange">>,
     TXT |-> <<"text", "text">>, NS |-> <<"ns", "ns">>,
     SRV |-> <<"srv_target", "srv-target">>, FWD |-> <<"forward_to", "forward-to">>,
     REGEXP |-> <<"regexp", "regexp">>]

TypeOwns ==
    [A |-> {"address"}, AAAA |-> {"address"}, CNAME |-> {"cname"},
     MX |-> {"mx-exchange", "mx-preference"}, TXT |-> {"text"}, NS |-> {"ns"},
     SRV |-> {"srv-target", "srv-priority", "srv-weight", "srv-port"},
     FWD |-> {"forward-to"}, REGEXP |-> {"regexp"}, NXDOMAIN |-> {}]

TypeFields == UNION {TypeOwns[t] : t \in DOMAIN TypeOwns}

\* C13: add_entry enforces the field its record type requires: when that
\* field is empty it raises ValueError and the router is left unchanged;
\* when it succeeds the parameters sent hold name, type, ttl and the type's
\* own fields but no field of another record type.
C13_AddRequiresTypeField ==
    (callOp = "add_entry" /\ Places(before, "name", callArgs.name) = {}) =>
        LET kw == callArgs.kwargs
            t == IF "record_type" \in DOMAIN kw THEN kw["record_type"].s ELSE "A"
            missing == /\ t \in DOMAIN TypeRequires
                       /\ DGetOr(kw, TypeRequires[t][1], S("")) = S("")
        IN  /\ t \in DOMAIN TypeOwns
            /\ IF missing
               THEN callRaised = "ValueError" /\ RouterUntouched
               ELSE /\ callRaised = ""
                    /\ Len(router.sent) = 1
                    /\ router.sent[1].op = "add"
                    /\ {"name", "type", "ttl"} \subseteq DOMAIN router.sent[1].params
                    /\ router.sent[1].params["name"] = callArgs.name
                    /\ router.sent[1].params["type"] = S(t)
                    /\ t \in DOMAIN TypeRequires =>
                          DGet(router.sent[1].params, TypeRequires[t][2])
                             = kw[TypeRequires[t][1]]
                    /\ (DOMAIN router.sent[1].params \cap TypeFields) \subseteq TypeOwns[t]
                    /\ Len(router.entries) = Len(before.entries) + 1

C13_Witness ==
    /\ callOp = "add_entry"
    /\ DGet(callArgs.kwargs, "record_type") = S("SRV")
    /\ "address" \in DOMAIN callArgs.kwargs
    /\ callRaised = ""
    /\ DOMAIN router.sent[1].params = {"name", "type", "ttl", "srv-target", "srv-port"}

\* the router's name of each keyword parameter of update_entry
UpdateFieldName ==
    [record_type |-> "type", address |-> "address", cname |-> "cname",
     mx_preference |-> "mx-preference", mx_exchange |-> "mx-exchange",
     text |-> "text", ttl |-> "ttl", comment |-> "comment", disabled |-> "disabled"]

\* C14: update_entry(name, ...) returns False and sends nothing when no entry
\* has that name; otherwise it sends exactly one update addressed to the id
\* of the first entry with that name, holding only the fields whose argument
\* is not None, and returns True.
C14_UpdateSendsGivenFields ==
    callOp = "update_entry" =>
        LET named == Places(before, "name", callArgs.name)
            kw == callArgs.kwargs
        IN  /\ callRaised = ""
            /\ IF named = {}
               THEN callRet.val = B(FALSE) /\ RouterUntouched
               ELSE /\ callRet.val = B(TRUE)
                    /\ Len(router.sent) = 1
                    /\ router.sent[1].op = "update"
                    /\ router.sent[1].params[".id"] = before.entries[FirstOf(named)][".id"]
                    /\ DOMAIN router.sent[1].params \ {".id"}
                          = {UpdateFieldName[k] : k \in {q \in DOMAIN kw : kw[q] # PyNone}}

C14_Witness ==
    /\ callOp = "update_entry" /\ callArgs.name = S("a.lan")
    /\ before.entries = <<EA, EA2>>
    /\ callArgs.kwargs = [address |-> PyNone, comment |-> S("")]
    /\ router.sent = <<[op |-> "update",
                        params |-> (".id" :> S("*1")) @@ [comment |-> S("")]]>>
    /\ callRet.val = B(TRUE)

\* the imported records that have a key value, in order, and the key values
\* among them that the router did not hold when the import began
KeyedRows == SelectSeq(callArgs.data.rows, LAMBDA row : PyTruthy(DGet(row, callArgs.key_field)))

NewKeys ==
    {DGet(KeyedRows[i], callArgs.key_field) : i \in 1..Len(KeyedRows)}
        \ {DGet(before.entries[i], callArgs.key_field) : i \in 1..Len(before.entries)}

\* the places in KeyedRows where a new key value occurs for the first time
FirstOfNewKey ==
    {i \in 1..Len(KeyedRows) :
        /\ DGet(KeyedRows[i], callArgs.key_field) \in NewKeys
        /\ \A j \in 1..(i - 1) : DGet(KeyedRows[j], callArgs.key_field)
                                     # DGet(KeyedRows[i], callArgs.key_field)}

\* an import by a ResourceManager of data its parser accepts
GenericImport(overwrite) ==
    /\ callOp = "import_entries" /\ mgr = "ResourceManager"
    /\ callArgs.overwrite = overwrite
    /\ callArgs.format \in {"json", "csv"} /\ callArgs.data.ok

\* C15: import_entries with overwrite=False never updates or removes an
\* entry of the router: a record whose key value matches an existing entry
\* is counted as skipped, a record with a new key value is added, a key value
\* that occurs several times in the data is added once, and a router with
\* unique key values keeps unique key values.
C15_ImportWithoutOverwrite ==
    GenericImport(FALSE) =>
        LET adds == SelectSeq(KeyedRows,
                       LAMBDA row : \E i \in FirstOfNewKey : KeyedRows[i] = row)
        IN  /\ callRaised = ""
            /\ SubSeq(router.entries, 1, Len(before.entries)) = before.entries
            /\ Len(router.sent) = Cardinality(NewKeys)
            /\ \A i \in 1..Len(router.sent) : router.sent[i].op = "add"
            /\ \A kv \in NewKeys :
                  Cardinality(Places(router, callArgs.key_field, kv)) = 1
            /\ callRet.stats = [added |-> Cardinality(NewKeys), updated |-> 0,
                                skipped |-> Len(callArgs.data.rows) - Cardinality(NewKeys)]
            /\ UniqueField(before, callArgs.key_field)
                  => UniqueField(router, callArgs.key_field)

C15_Witness ==
    /\ GenericImport(FALSE)
    /\ before.entries = <<EA>>
    /\ Len(callArgs.data.rows) = 3
    /\ callRet.stats = [added |-> 1, updated |-> 0, skipped |-> 2]
    /\ Len(router.entries) = 2

\* C16: import_entries with overwrite=True updates, for every record whose
\* key value matches an existing entry, the first such entry by its '.id'
\* with the record's fields and counts it as updated; it never adds a second
\* entry with an existing key value, and the '.id' an imported record
\* carries is never sent to the router.
C16_ImportWithOverwrite ==
    GenericImport(TRUE) =>
        /\ callRaised = ""
        /\ Len(router.sent) = Len(KeyedRows)
        /\ \A i \in 1..Len(router.sent) :
              LET row == KeyedRows[i]
                  fields == [k \in DOMAIN row \ {".id"} |-> row[k]]
                  kv == DGet(row, callArgs.key_field)
                  p == router.sent[i].params
              IN  IF i \in FirstOfNewKey
                  THEN router.sent[i].op = "add" /\ p = fields
                  ELSE /\ router.sent[i].op = "update"
                       /\ p[".id"] = router.entries[
                              FirstOf(Places(router, callArgs.key_field, kv))][".id"]
                       /\ [k \in DOMAIN p \ {".id"} |-> p[k]] = fields
        /\ callRet.stats = [added |-> Cardinality(NewKeys),
                            updated |-> Len(KeyedRows) - Cardinality(NewKeys),
                            skipped |-> Len(callArgs.data.rows) - Len(KeyedRows)]
        /\ Len(router.entries) = Len(before.entries) + Cardinality(NewKeys)
        /\ UniqueField(before, callArgs.key_field)
              => UniqueField(router, callArgs.key_field)

C16_Witness ==
    /\ GenericImport(TRUE)
    /\ before.entries = <<EA, EA2>>
    /\ callArgs.key_field = "name"
    /\ \E i \in 1..Len(callArgs.data.rows) : ".id" \in DOMAIN callArgs.data.rows[i]
    /\ callRet.stats = [added |-> 1, updated |-> 1, skipped |-> 0]
    /\ router.sent[1] = [op |-> "update",
                         params |-> (".id" :> S("*1")) @@ [name |-> S("a.lan"),
                                                           address |-> S("10.0.0.9")]]

\* C17: the export and import DNSManager inherits work on DNS entries:
\* importing the output of DNSManager.export_entries (json or csv) into a
\* router holding none of the exported names adds one entry per record and
\* returns added equal to the number of records; importing it with
\* overwrite=True into a router holding those names updates each and returns
\* updated equal to the number of records; neither raises.
C17_DnsExportImports ==
    (/\ callOp = "import_entries" /\ mgr = "DNSManager"
     /\ callArgs.data \in {DnsExport("json"), DnsExport("csv")}) =>
        LET rows == callArgs.data.rows
            held == {i \in 1..Len(rows) : Places(before, "name", rows[i]["name"]) # {}}
        IN  /\ held = {} =>
                  /\ callRaised = ""
                  /\ callRet.stats.added = Len(rows)
                  /\ Len(router.entries) = Len(before.entries) + Len(rows)
            /\ (callArgs.overwrite /\ held = 1..Len(rows)) =>
                  /\ callRaised = ""
                  /\ callRet.stats.updated = Len(rows)
                  /\ Len(router.entries) = Len(before.entries)

\* C18: export_entries never modifies the router; with format 'json' or
\* 'csv' it returns one record per listed entry in list order, for any list
\* of entries including entries whose field sets differ; with any other
\* format it raises ValueError.
C18_ExportAnyEntries ==
    callOp = "export_entries" =>
        /\ router.sent = <<>> /\ router.entries = before.entries
        /\ IF callArgs.format \in {"json", "csv"}
           THEN /\ callRaised = ""
                /\ callRet.text.ok
                /\ Len(callRet.text.rows) = Len(before.entries)
                /\ \A i \in 1..Len(before.entries) :
                      DGet(callRet.text.rows[i], "name").s
                         = DGet(before.entries[i], "name").s
           ELSE callRaised = "ValueError"

(***************************************************************************)
(* A claim about config.py, checked under CliSpec where main() calls       *)
(* load_routers.                                                           *)
(***************************************************************************)
\* the router files load_routers may read: those that parse and name a
\* router and, for a caller that is not root, are owned by root
ReadableFiles ==
    {i \in 1..Len(routersDir.files) :
        /\ routersDir.files[i].valid
        /\ euid = 0 \/ routersDir.files[i].uid = 0}

\* C19: load_routers never returns an empty mapping: it raises
\* FileNotFoundError when routers.d is missing or yields no valid router; for
\* a caller that is not root it raises PermissionError when the directory is
\* not owned by root and never includes a router from a file not owned by
\* root; for root both ownership checks are skipped; a file that fails to
\* parse or lacks a router name is skipped and the others still load.
C19_LoadRouters ==
    loadCalled =>
        LET denied == routersDir.exists /\ euid # 0 /\ routersDir.uid # 0
            nothing == ~routersDir.exists \/ (~denied /\ ReadableFiles = {})
        IN  /\ nothing => (/\ routers = <<>> /\ pc = "exit" /\ unhandled = ""
                           /\ out = <<"Error">> /\ exitStatus = 1)
            /\ denied => (routers = <<>> /\ pc = "exit" /\ unhandled = "PermissionError")
            /\ (~nothing /\ ~denied) =>
                  /\ routers # <<>>
                  /\ {routers[i] : i \in 1..Len(routers)}
                        = {routersDir.files[i].data : i \in ReadableFiles}

C19_Witness ==
    /\ pc = "config" /\ euid # 0
    /\ routersDir.files = <<RouterFile(1000, R3), BadRouterFile, RouterFile(0, R1)>>
    /\ routers = <<R1>>

(***************************************************************************)
(* A further claim about access.py, checked under AccessSpec.              *)
(***************************************************************************)
\* C20: a configured user who is not root and all of whose group references
\* resolve to the effective access level 'read-only' fails check_permission
\* for every '<module>:write' permission, whatever the shape of the groups,
\* groups with wildcard modules included.
C20_ReadOnlyNeverWrites ==
    (/\ lastOp = "check_permission" /\ euid # 0
     /\ username \in DOMAIN load_users
     /\ Len(lastArg) = 3 /\ lastArg[2] = Colon /\ lastArg[3] = "write"
     /\ LET user == load_users[username]
        IN  /\ RefPlaces(user) # {}
            /\ DefinedRefs(user, load_groups) = RefPlaces(user)
            /\ \A pl \in RefPlaces(user) :
                  EffectiveLevel(RefAt(user, pl),
                                 load_groups[group_name(RefAt(user, pl))])
                     = <<"read-only">>)
        => lastRet = FALSE

====
